---- MODULE Spec2Model ----
(***************************************************************************)
(* A model of numba-dppy's context selector (numba_dppy/descriptor.py),    *)
(* its USM transfer utilities (numba_dppy/utils/array_utils.py) and its    *)
(* device array type (numba_dppy/dppy_array_type.py).                      *)
(*                                                                         *)
(* Three specifications share the variables:                               *)
(*   Spec      threads using the two target descriptors of descriptor.py   *)
(*   SpecMem   calls of the functions of utils/array_utils.py              *)
(*   SpecType  construction and copy() of DPPYArray types                  *)
(***************************************************************************)
EXTENDS Integers, Sequences, FiniteSets, TLC

VARIABLES
    \* ---- descriptor.py ----
    nested_typing_context,  \* DPPYCpuTarget._nested._typing_context
    nested_target_context,  \* DPPYCpuTarget._nested._target_context
    global_compiler_lock,   \* the thread holding numba's global compiler lock
    toplevel_typing,        \* per descriptor: the cached _toplevel_typing_context
    toplevel_target,        \* per descriptor: the cached _toplevel_target_context
    built_typing,           \* per descriptor: how many typing contexts were constructed
    built_target,           \* per descriptor: how many target contexts were constructed
    pc,                     \* per thread: position in the operation it runs
    frames,                 \* per thread: the suspended nested() generators, innermost last
    tyarg,                  \* per thread: the typing context handed to a target context's constructor
    raising,                \* per thread: an exception is propagating out of a with-block
    ret,                    \* per thread: the value a property read has just returned
    \* ---- utils/array_utils.py ----
    host,                   \* the host objects "a" and "b"
    host0,                  \* the host objects as first created
    usm,                    \* the USM allocations made so far
    last,                   \* the last call and its outcome
    \* ---- dppy_array_type.py ----
    ty,                     \* a DPPYArray type
    request,                \* the overrides asked of copy()
    derived                 \* what copy() returned

ctxVars == <<nested_typing_context, nested_target_context, global_compiler_lock,
             toplevel_typing, toplevel_target, built_typing, built_target,
             pc, frames, tyarg, raising, ret>>
memVars == <<host, host0, usm, last>>
typeVars == <<ty, request, derived>>
vars == <<ctxVars, memVars, typeVars>>

(***************************************************************************)
(*                         descriptor.py                                   *)
(***************************************************************************)

\* Two threads of the process.
Threads == {"A", "B"}

\* How deep one thread nests nested_context scopes.
MaxDepth == 2

\* How many nested_context scopes are open in the process at a time.
MaxScopes == 2

\* Python's None, as a context value.
None == <<"None", 0>>

\* The (typing_context, target_context) pairs callers pass to nested_context.
OverridePairs == {<<<<"tyX", 0>>, <<"tgX", 0>>>>, <<<<"tyY", 0>>, <<"tgY", 0>>>>}

\* A thread that is not holding a value a property returned.
NoValue == <<"none", None>>

\* No thread holds the lock.
Free == "free"

\* The two module-level descriptors: dppy_cpu_target and dppy_target.
Targets == {"cpu", "dev"}

\* The k-th typing / target context constructed for descriptor d.
TypingContext(d, k) == <<d \o "Ty", k>>
TargetContext(d, k) == <<d \o "Tg", k>>

\* Positions at which a context constructor is running.
BuildTypingPcs == {"cty_build", "ctg_ty_build", "dty_build", "dtg_ty_build"}
BuildTargetPcs == {"ctg_build", "dtg_build"}

InitCtx ==
    /\ nested_typing_context = None
    /\ nested_target_context = None
    /\ global_compiler_lock = Free
    /\ toplevel_typing = [d \in Targets |-> None]
    /\ toplevel_target = [d \in Targets |-> None]
    /\ built_typing = [d \in Targets |-> 0]
    /\ built_target = [d \in Targets |-> 0]
    /\ pc = [t \in Threads |-> "idle"]
    /\ frames = [t \in Threads |-> <<>>]
    /\ tyarg = [t \in Threads |-> None]
    /\ raising = [t \in Threads |-> FALSE]
    /\ ret = [t \in Threads |-> NoValue]

RECURSIVE OpenScopes(_)
OpenScopes(T) ==
    IF T = {} THEN 0
    ELSE LET t == CHOOSE x \in T : TRUE IN Len(frames[t]) + OpenScopes(T \ {t})

Top(t) == frames[t][Len(frames[t])]
SetTop(t, f) == [frames EXCEPT ![t] = [@ EXCEPT ![Len(@)] = f]]
Pop(t) == [frames EXCEPT ![t] = SubSeq(@, 1, Len(@) - 1)]

unchangedTop == UNCHANGED <<toplevel_typing, toplevel_target, built_typing, built_target>>
unchangedNested == UNCHANGED <<nested_typing_context, nested_target_context>>

\* DPPYCpuTarget.nested_context: under the lock, creates the generator of
\* _NestedContext.nested and returns it; the lock is released on return.
nested_context(t) ==
    /\ pc[t] = "idle"
    /\ Len(frames[t]) < MaxDepth
    /\ OpenScopes(Threads) < MaxScopes
    /\ global_compiler_lock = Free
    /\ \E p \in OverridePairs :
         frames' = [frames EXCEPT ![t] = Append(@, [arg |-> p, old |-> <<None, None>>])]
    /\ pc' = [pc EXCEPT ![t] = "enter_read_ty"]
    /\ UNCHANGED <<raising, global_compiler_lock, tyarg, ret>>
    /\ unchangedTop /\ unchangedNested
    /\ UNCHANGED <<memVars, typeVars>>

\* old_nested = self._typing_context, ...   (first element of the tuple)
enter_read_typing(t) ==
    /\ pc[t] = "enter_read_ty"
    /\ frames' = SetTop(t, [Top(t) EXCEPT !.old = <<nested_typing_context, @[2]>>])
    /\ pc' = [pc EXCEPT ![t] = "enter_read_tg"]
    /\ UNCHANGED <<raising, global_compiler_lock, tyarg, ret>>
    /\ unchangedTop /\ unchangedNested
    /\ UNCHANGED <<memVars, typeVars>>

\* old_nested = ..., self._target_context   (second element of the tuple)
enter_read_target(t) ==
    /\ pc[t] = "enter_read_tg"
    /\ frames' = SetTop(t, [Top(t) EXCEPT !.old = <<@[1], nested_target_context>>])
    /\ pc' = [pc EXCEPT ![t] = "enter_set_ty"]
    /\ UNCHANGED <<raising, global_compiler_lock, tyarg, ret>>
    /\ unchangedTop /\ unchangedNested
    /\ UNCHANGED <<memVars, typeVars>>

\* self._typing_context = typing_context
enter_set_typing(t) ==
    /\ pc[t] = "enter_set_ty"
    /\ nested_typing_context' = Top(t).arg[1]
    /\ pc' = [pc EXCEPT ![t] = "enter_set_tg"]
    /\ UNCHANGED <<raising, nested_target_context, global_compiler_lock, frames, tyarg, ret>>
    /\ unchangedTop
    /\ UNCHANGED <<memVars, typeVars>>

\* self._target_context = target_context; yield
enter_set_target(t) ==
    /\ pc[t] = "enter_set_tg"
    /\ nested_target_context' = Top(t).arg[2]
    /\ pc' = [pc EXCEPT ![t] = "idle"]
    /\ UNCHANGED <<raising, nested_typing_context, global_compiler_lock, frames, tyarg, ret>>
    /\ unchangedTop
    /\ UNCHANGED <<memVars, typeVars>>

\* The body of the innermost with-block ends, normally or with an exception
\* thrown into the generator at its yield: either way the finally clause runs.
leave_scope(t) ==
    /\ pc[t] = "idle"
    /\ Len(frames[t]) > 0
    /\ \E failed \in BOOLEAN : raising' = [raising EXCEPT ![t] = failed]
    /\ pc' = [pc EXCEPT ![t] = "exit_set_ty"]
    /\ UNCHANGED <<global_compiler_lock, frames, tyarg, ret>>
    /\ unchangedTop /\ unchangedNested
    /\ UNCHANGED <<memVars, typeVars>>

\* finally: self._typing_context, ... = old_nested   (first store)
exit_set_typing(t) ==
    /\ pc[t] = "exit_set_ty"
    /\ nested_typing_context' = Top(t).old[1]
    /\ pc' = [pc EXCEPT ![t] = "exit_set_tg"]
    /\ UNCHANGED <<raising, nested_target_context, global_compiler_lock, frames, tyarg, ret>>
    /\ unchangedTop
    /\ UNCHANGED <<memVars, typeVars>>

\* finally: ..., self._target_context = old_nested   (second store); the
\* generator ends and the with-statement is left.
exit_set_target(t) ==
    /\ pc[t] = "exit_set_tg"
    /\ nested_target_context' = Top(t).old[2]
    /\ frames' = Pop(t)
    /\ raising' = [raising EXCEPT ![t] = FALSE]
    /\ pc' = [pc EXCEPT ![t] = "idle"]
    /\ UNCHANGED <<nested_typing_context, global_compiler_lock, tyarg, ret>>
    /\ unchangedTop
    /\ UNCHANGED <<memVars, typeVars>>

Goto(t, where) == pc' = [pc EXCEPT ![t] = where]
\* Property prop returns v to its caller.
Return(t, prop, v) == ret' = [ret EXCEPT ![t] = <<prop, v>>] /\ Goto(t, "returned")

\* @global_compiler_lock on a DPPYCpuTarget property: the calling thread takes
\* the (re-entrant) lock before the getter's body runs.
cpu_acquire(t) ==
    /\ pc[t] = "idle"
    /\ global_compiler_lock = Free
    /\ global_compiler_lock' = t
    /\ \E p \in {"cty_read_nested", "ctg_read_nested"} : Goto(t, p)
    /\ UNCHANGED <<raising, frames, tyarg, ret>>
    /\ unchangedTop /\ unchangedNested
    /\ UNCHANGED <<memVars, typeVars>>

\* DPPYCpuTarget.typing_context: nested = self._nested._typing_context; the
\* override is returned when there is one.
cpu_typing_context(t) ==
    /\ pc[t] = "cty_read_nested"
    /\ IF nested_typing_context # None
         THEN Return(t, "cpu.typing_context", nested_typing_context) /\ global_compiler_lock' = Free
         ELSE Goto(t, "cty_top") /\ UNCHANGED <<ret, global_compiler_lock>>
    /\ UNCHANGED <<raising, frames, tyarg>>
    /\ unchangedTop /\ unchangedNested
    /\ UNCHANGED <<memVars, typeVars>>

\* DPPYCpuTarget._toplevel_typing_context, a cached_property: the cached
\* value if there is one, else the decorated function is called.
cpu_toplevel_typing_context(t) ==
    /\ pc[t] = "cty_top"
    /\ IF toplevel_typing["cpu"] # None
         THEN Return(t, "cpu.typing_context", toplevel_typing["cpu"]) /\ global_compiler_lock' = Free
         ELSE Goto(t, "cty_build") /\ UNCHANGED <<ret, global_compiler_lock>>
    /\ UNCHANGED <<raising, frames, tyarg>>
    /\ unchangedTop /\ unchangedNested
    /\ UNCHANGED <<memVars, typeVars>>

\* typing.Context() is constructed, cached and returned.
cpu_build_typing(t) ==
    /\ pc[t] = "cty_build"
    /\ built_typing' = [built_typing EXCEPT !["cpu"] = @ + 1]
    /\ toplevel_typing' = [toplevel_typing EXCEPT !["cpu"] = TypingContext("cpu", built_typing'["cpu"])]
    /\ Return(t, "cpu.typing_context", toplevel_typing'["cpu"])
    /\ global_compiler_lock' = Free
    /\ UNCHANGED <<raising, frames, tyarg, toplevel_target, built_target>>
    /\ unchangedNested
    /\ UNCHANGED <<memVars, typeVars>>

\* DPPYCpuTarget.target_context: nested = self._nested._target_context.
cpu_target_context(t) ==
    /\ pc[t] = "ctg_read_nested"
    /\ IF nested_target_context # None
         THEN Return(t, "cpu.target_context", nested_target_context) /\ global_compiler_lock' = Free
         ELSE Goto(t, "ctg_top") /\ UNCHANGED <<ret, global_compiler_lock>>
    /\ UNCHANGED <<raising, frames, tyarg>>
    /\ unchangedTop /\ unchangedNested
    /\ UNCHANGED <<memVars, typeVars>>

\* DPPYCpuTarget._toplevel_target_context, a cached_property: when nothing is
\* cached, DPPYCpuTargetContext(self.typing_context) first reads
\* self.typing_context (the lock is re-entrant).
cpu_toplevel_target_context(t) ==
    /\ pc[t] = "ctg_top"
    /\ IF toplevel_target["cpu"] # None
         THEN Return(t, "cpu.target_context", toplevel_target["cpu"]) /\ global_compiler_lock' = Free
         ELSE Goto(t, "ctg_ty_read_nested") /\ UNCHANGED <<ret, global_compiler_lock>>
    /\ UNCHANGED <<raising, frames, tyarg>>
    /\ unchangedTop /\ unchangedNested
    /\ UNCHANGED <<memVars, typeVars>>

\* self.typing_context inside _toplevel_target_context: the override, the
\* cached top-level typing context, or a newly constructed one.
cpu_target_reads_typing(t) ==
    /\ pc[t] = "ctg_ty_read_nested"
    /\ IF nested_typing_context # None
         THEN tyarg' = [tyarg EXCEPT ![t] = nested_typing_context] /\ Goto(t, "ctg_build")
         ELSE IF toplevel_typing["cpu"] # None
                THEN tyarg' = [tyarg EXCEPT ![t] = toplevel_typing["cpu"]] /\ Goto(t, "ctg_build")
                ELSE UNCHANGED tyarg /\ Goto(t, "ctg_ty_build")
    /\ UNCHANGED <<raising, frames, ret, global_compiler_lock>>
    /\ unchangedTop /\ unchangedNested
    /\ UNCHANGED <<memVars, typeVars>>

cpu_target_builds_typing(t) ==
    /\ pc[t] = "ctg_ty_build"
    /\ built_typing' = [built_typing EXCEPT !["cpu"] = @ + 1]
    /\ toplevel_typing' = [toplevel_typing EXCEPT !["cpu"] = TypingContext("cpu", built_typing'["cpu"])]
    /\ tyarg' = [tyarg EXCEPT ![t] = toplevel_typing'["cpu"]]
    /\ Goto(t, "ctg_build")
    /\ UNCHANGED <<raising, frames, ret, global_compiler_lock, toplevel_target, built_target>>
    /\ unchangedNested
    /\ UNCHANGED <<memVars, typeVars>>

\* DPPYCpuTargetContext(typing context) is constructed, cached and returned.
cpu_build_target(t) ==
    /\ pc[t] = "ctg_build"
    /\ built_target' = [built_target EXCEPT !["cpu"] = @ + 1]
    /\ toplevel_target' = [toplevel_target EXCEPT !["cpu"] = TargetContext("cpu", built_target'["cpu"])]
    /\ Return(t, "cpu.target_context", toplevel_target'["cpu"])
    /\ tyarg' = [tyarg EXCEPT ![t] = None]
    /\ global_compiler_lock' = Free
    /\ UNCHANGED <<raising, frames, toplevel_typing, built_typing>>
    /\ unchangedNested
    /\ UNCHANGED <<memVars, typeVars>>

\* DPPYTarget.typing_context / target_context are plain properties: the
\* thread goes straight to the cached_property.
dev_read(t) ==
    /\ pc[t] = "idle"
    /\ \E p \in {"dty_top", "dtg_top"} : Goto(t, p)
    /\ UNCHANGED <<raising, frames, tyarg, ret, global_compiler_lock>>
    /\ unchangedTop /\ unchangedNested
    /\ UNCHANGED <<memVars, typeVars>>

\* DPPYTarget._toplevel_typing_context, a cached_property.
dev_toplevel_typing_context(t) ==
    /\ pc[t] = "dty_top"
    /\ IF toplevel_typing["dev"] # None
         THEN Return(t, "dev.typing_context", toplevel_typing["dev"])
         ELSE Goto(t, "dty_build") /\ UNCHANGED ret
    /\ UNCHANGED <<raising, frames, tyarg, global_compiler_lock>>
    /\ unchangedTop /\ unchangedNested
    /\ UNCHANGED <<memVars, typeVars>>

\* DPPYTypingContext() is constructed, cached and returned.
dev_build_typing(t) ==
    /\ pc[t] = "dty_build"
    /\ built_typing' = [built_typing EXCEPT !["dev"] = @ + 1]
    /\ toplevel_typing' = [toplevel_typing EXCEPT !["dev"] = TypingContext("dev", built_typing'["dev"])]
    /\ Return(t, "dev.typing_context", toplevel_typing'["dev"])
    /\ UNCHANGED <<raising, frames, tyarg, global_compiler_lock, toplevel_target, built_target>>
    /\ unchangedNested
    /\ UNCHANGED <<memVars, typeVars>>

\* DPPYTarget._toplevel_target_context, a cached_property: when nothing is
\* cached, DPPYTargetContext(self.typing_context) first reads self.typing_context.
dev_toplevel_target_context(t) ==
    /\ pc[t] = "dtg_top"
    /\ IF toplevel_target["dev"] # None
         THEN Return(t, "dev.target_context", toplevel_target["dev"])
         ELSE Goto(t, "dtg_ty_top") /\ UNCHANGED ret
    /\ UNCHANGED <<raising, frames, tyarg, global_compiler_lock>>
    /\ unchangedTop /\ unchangedNested
    /\ UNCHANGED <<memVars, typeVars>>

dev_target_reads_typing(t) ==
    /\ pc[t] = "dtg_ty_top"
    /\ IF toplevel_typing["dev"] # None
         THEN tyarg' = [tyarg EXCEPT ![t] = toplevel_typing["dev"]] /\ Goto(t, "dtg_build")
         ELSE UNCHANGED tyarg /\ Goto(t, "dtg_ty_build")
    /\ UNCHANGED <<raising, frames, ret, global_compiler_lock>>
    /\ unchangedTop /\ unchangedNested
    /\ UNCHANGED <<memVars, typeVars>>

dev_target_builds_typing(t) ==
    /\ pc[t] = "dtg_ty_build"
    /\ built_typing' = [built_typing EXCEPT !["dev"] = @ + 1]
    /\ toplevel_typing' = [toplevel_typing EXCEPT !["dev"] = TypingContext("dev", built_typing'["dev"])]
    /\ tyarg' = [tyarg EXCEPT ![t] = toplevel_typing'["dev"]]
    /\ Goto(t, "dtg_build")
    /\ UNCHANGED <<raising, frames, ret, global_compiler_lock, toplevel_target, built_target>>
    /\ unchangedNested
    /\ UNCHANGED <<memVars, typeVars>>

\* DPPYTargetContext(typing context) is constructed, cached and returned.
dev_build_target(t) ==
    /\ pc[t] = "dtg_build"
    /\ built_target' = [built_target EXCEPT !["dev"] = @ + 1]
    /\ toplevel_target' = [toplevel_target EXCEPT !["dev"] = TargetContext("dev", built_target'["dev"])]
    /\ Return(t, "dev.target_context", toplevel_target'["dev"])
    /\ tyarg' = [tyarg EXCEPT ![t] = None]
    /\ UNCHANGED <<raising, frames, global_compiler_lock, toplevel_typing, built_typing>>
    /\ unchangedNested
    /\ UNCHANGED <<memVars, typeVars>>

\* The caller of a property takes the value it returned and goes on.
resume(t) ==
    /\ pc[t] = "returned"
    /\ ret' = [ret EXCEPT ![t] = NoValue]
    /\ Goto(t, "idle")
    /\ UNCHANGED <<raising, frames, tyarg, global_compiler_lock>>
    /\ unchangedTop /\ unchangedNested
    /\ UNCHANGED <<memVars, typeVars>>

\* A thread enters or leaves a nested_context scope of dppy_cpu_target.
ScopeStep(t) ==
    \/ nested_context(t)
    \/ enter_read_typing(t)
    \/ enter_read_target(t)
    \/ enter_set_typing(t)
    \/ enter_set_target(t)
    \/ leave_scope(t)
    \/ exit_set_typing(t)
    \/ exit_set_target(t)

\* A thread reads dppy_cpu_target.typing_context or .target_context.
CpuReadStep(t) ==
    \/ cpu_acquire(t)
    \/ cpu_typing_context(t)
    \/ cpu_toplevel_typing_context(t)
    \/ cpu_build_typing(t)
    \/ cpu_target_context(t)
    \/ cpu_toplevel_target_context(t)
    \/ cpu_target_reads_typing(t)
    \/ cpu_target_builds_typing(t)
    \/ cpu_build_target(t)

\* A thread reads dppy_target.typing_context or .target_context.
DevReadStep(t) ==
    \/ dev_read(t)
    \/ dev_toplevel_typing_context(t)
    \/ dev_build_typing(t)
    \/ dev_toplevel_target_context(t)
    \/ dev_target_reads_typing(t)
    \/ dev_target_builds_typing(t)
    \/ dev_build_target(t)

(***************************************************************************)
(*                       utils/array_utils.py                              *)
(***************************************************************************)

\* How many USM allocations a run makes.
MaxBufs == 1

\* numpy dtypes of the host arrays, and their dtype.itemsize in bytes.
DTypes == {"int16", "int32", "int64", "uint32", "uint64", "float32", "float64"}
itemsize(dt) ==
    CASE dt = "int16" -> 2
      [] dt \in {"int32", "uint32", "float32"} -> 4
      [] OTHER -> 8

\* The module-level list, element by element as written.
supported_numpy_dtype == <<"int32", "int64", "uint32", "int64", "float32", "float64">>

\* obj.dtype in [np.dtype(typ) for typ in supported_numpy_dtype]
dtype_is_supported(dt) ==
    \E i \in 1..Len(supported_numpy_dtype) : supported_numpy_dtype[i] = dt

\* References to the objects handed to the functions: the host ndarrays
\* host[1] ("a") and host[2] ("b"), the dpctl memory object of allocation k,
\* an object whose .base is the memory object of allocation k, and a Python
\* list (neither an ndarray nor USM backed).
HostRefs == {<<"host", 1>>, <<"host", 2>>}
UsmRefs(u) == {<<"usm", k>> : k \in 1..Len(u)}
ViewRefs(u) == {<<"view", k>> : k \in 1..Len(u)}
ListRef == <<"list", 0>>
NoRef == <<"none", 0>>
Objects(u) == HostRefs \cup UsmRefs(u) \cup ViewRefs(u) \cup {ListRef}

\* The queue arguments: None, a dpctl.SyclQueue, and a value of another type.
QueueArgs == {"None", "queue", "not a queue"}
is_SyclQueue(q) == q = "queue"

\* The usm_type arguments.
UsmTypeArgs == {"shared", "device", "host", "unified"}

\* np.prod(shape)
RECURSIVE prod(_)
prod(shape) == IF shape = <<>> THEN 1 ELSE Head(shape) * prod(Tail(shape))

\* obj.flags.c_contiguous, as numpy computes it from shape and strides.
RECURSIVE contiguous_from(_, _, _, _)
contiguous_from(shape, strides, i, sd) ==
    IF i = 0 THEN TRUE
    ELSE IF shape[i] = 0 THEN TRUE
    ELSE IF shape[i] # 1 /\ strides[i] # sd THEN FALSE
    ELSE contiguous_from(shape, strides, i - 1, sd * shape[i])
c_contiguous(a) == contiguous_from(a.shape, a.strides, Len(a.shape), itemsize(a.dtype))

\* The byte offsets of an array's elements, in row-major order of the indices.
RECURSIVE offsets_from(_, _, _)
RECURSIVE element_offsets(_, _)
offsets_from(shape, strides, i) ==
    IF i = shape[1] THEN <<>>
    ELSE LET inner == element_offsets(Tail(shape), Tail(strides))
         IN [k \in 1..Len(inner) |-> i * strides[1] + inner[k]]
              \o offsets_from(shape, strides, i + 1)
element_offsets(shape, strides) ==
    IF shape = <<>> THEN <<0>> ELSE offsets_from(shape, strides, 0)

\* The bytes of the elements at the given offsets, one element after another.
RECURSIVE gather(_, _, _)
gather(mem, offs, size) ==
    IF offs = <<>> THEN <<>>
    ELSE SubSeq(mem, Head(offs) + 1, Head(offs) + size) \o gather(mem, Tail(offs), size)

\* The first bytes of the array's memory taken as they lie, in place of
\* the elements in row-major order.
ravel_memory(a) ==
    [kind |-> "ndarray", dtype |-> a.dtype,
     shape |-> <<prod(a.shape)>>, strides |-> <<itemsize(a.dtype)>>,
     mem |-> SubSeq(a.mem, 1, prod(a.shape) * itemsize(a.dtype))]

\* obj.flatten(order="C"): a new one-dimensional contiguous array holding the
\* elements in row-major order.
flatten(a) ==
    [kind |-> "ndarray", dtype |-> a.dtype,
     shape |-> <<prod(a.shape)>>, strides |-> <<itemsize(a.dtype)>>,
     mem |-> gather(a.mem, element_offsets(a.shape, a.strides), itemsize(a.dtype))]

\* A value that is no array.
NoArray == [kind |-> "none", dtype |-> "none", shape |-> <<>>, strides |-> <<>>, mem |-> <<>>]

\* has_usm_memory: as_usm_memory(obj), then as_usm_memory(obj.base) when obj
\* has a base attribute; the allocation found, or 0 for None.
as_usm_memory(ref) == IF ref[1] = "usm" THEN ref[2] ELSE 0
hasattr_base(ref) == ref[1] \in {"host", "view"}
base_of(ref) == IF ref[1] = "view" THEN <<"usm", ref[2]>> ELSE NoRef
has_usm_memory(ref) ==
    IF as_usm_memory(ref) # 0 THEN as_usm_memory(ref)
    ELSE IF hasattr_base(ref) THEN as_usm_memory(base_of(ref))
    ELSE 0

\* isinstance(obj, np.ndarray)
is_ndarray(ref) == ref[1] = "host"

\* usm_mem.copy_from_host(view): the bytes are written from the start of the
\* allocation.
copy_from_host(buf, bytes) ==
    [buf EXCEPT !.bytes = [i \in 1..buf.size |-> IF i <= Len(bytes) THEN bytes[i] ELSE @[i]]]

\* usm_mem.copy_to_host(view): the allocation's bytes are written into the
\* array's memory.
copy_to_host(buf, a) ==
    [a EXCEPT !.mem = [i \in 1..Len(@) |-> IF i <= buf.size THEN buf.bytes[i] ELSE @[i]]]

\* The allocation is no larger than the array, in place of exactly as large.
size_fits(buf, a) == buf.size <= itemsize(a.dtype) * prod(a.shape)

\* usm_mem.size != (packed_obj.dtype.itemsize * size) does not hold
size_matches(buf, a) == buf.size = itemsize(a.dtype) * prod(a.shape)

\* copy_from_numpy_to_usm_obj(usm_backed, obj) on allocations u and host
\* objects h: the outcome, the allocations afterwards, what is returned and
\* how many transfers were made.
copy_from_numpy_to_usm_obj(u, h, usm_backed, obj) ==
    LET usm_mem == has_usm_memory(usm_backed)
        fail(e) == [status |-> e, usm |-> u, packed_obj |-> NoArray, packed |-> FALSE, copies |-> 0]
    IN  IF usm_mem = 0 THEN fail("NotDeviceBacked")
        ELSE IF ~is_ndarray(obj) THEN fail("NotHostArray")
        ELSE IF ~dtype_is_supported(h[obj[2]].dtype) THEN fail("UnsupportedDType")
        ELSE LET a == h[obj[2]]
                 packed == ~c_contiguous(a)
                 packed_obj == IF packed THEN flatten(a) ELSE a
             IN  IF ~size_matches(u[usm_mem], packed_obj) THEN fail("SizeMismatch")
                 ELSE [status |-> "ok",
                       usm |-> [u EXCEPT ![usm_mem] = copy_from_host(@, packed_obj.mem)],
                       packed_obj |-> packed_obj, packed |-> packed, copies |-> 1]

\* copy_to_numpy_from_usm_obj(usm_backed, obj): the outcome, the host objects
\* afterwards and how many transfers were made.  memoryview.cast("B") raises
\* TypeError on a view that is not C-contiguous.
copy_to_numpy_from_usm_obj(u, h, usm_backed, obj) ==
    LET usm_mem == has_usm_memory(usm_backed)
        fail(e) == [status |-> e, host |-> h, copies |-> 0]
    IN  IF usm_mem = 0 THEN fail("NotDeviceBacked")
        ELSE IF ~is_ndarray(obj) THEN fail("NotHostArray")
        ELSE IF ~dtype_is_supported(h[obj[2]].dtype) THEN fail("UnsupportedDType")
        ELSE IF ~size_matches(u[usm_mem], h[obj[2]]) THEN fail("SizeMismatch")
        ELSE IF ~c_contiguous(h[obj[2]]) THEN fail("NotContiguous")
        ELSE [status |-> "ok",
              host |-> [h EXCEPT ![obj[2]] = copy_to_host(u[usm_mem], @)],
              copies |-> 1]

\* dpctl_mem.MemoryUSMShared / MemoryUSMDevice / MemoryUSMHost(nbytes,
\* queue=queue): a new allocation, its contents not initialised (every byte g).
MemoryUSM(usm_type, nbytes, queue, g) ==
    [size |-> nbytes, usm_type |-> usm_type, queue |-> queue, bytes |-> [i \in 1..nbytes |-> g]]

\* The queue checks of as_usm_backed: the error raised, or "ok".
check_queue(queue) ==
    IF queue = "None" THEN "QueueRequired"
    ELSE IF ~is_SyclQueue(queue) THEN "InvalidQueueType"
    ELSE "ok"

\* as_usm_backed(obj, queue, usm_type, copy) on allocations u and host objects
\* h: the outcome, the allocation returned (0 when it raises), the
\* allocations afterwards, and how many allocations and transfers were made.
as_usm_backed(u, h, obj, queue, usm_type, copy, g) ==
    LET found == has_usm_memory(obj)
        fail(e) == [status |-> e, ret |-> 0, usm |-> u, allocs |-> 0, copies |-> 0]
    IN  IF check_queue(queue) # "ok" THEN fail(check_queue(queue))
        ELSE IF found # 0
          THEN [status |-> "ok", ret |-> found, usm |-> u, allocs |-> 0, copies |-> 0]
        ELSE IF ~is_ndarray(obj) THEN fail("NotHostArray")
        ELSE IF ~dtype_is_supported(h[obj[2]].dtype) THEN fail("UnsupportedDType")
        ELSE IF usm_type \notin {"shared", "device", "host"} THEN fail("InvalidMemoryKind")
        ELSE LET a == h[obj[2]]
                 size == prod(a.shape)
                 u1 == Append(u, MemoryUSM(usm_type, size * itemsize(a.dtype), queue, g))
                 usm_mem == Len(u1)
                 c == copy_from_numpy_to_usm_obj(u1, h, <<"usm", usm_mem>>, obj)
             IN  IF ~copy
                   THEN [status |-> "ok", ret |-> usm_mem, usm |-> u1, allocs |-> 1, copies |-> 0]
                 ELSE IF c.status # "ok"
                   THEN [status |-> c.status, ret |-> 0, usm |-> u1, allocs |-> 1, copies |-> 0]
                 ELSE [status |-> "ok", ret |-> usm_mem, usm |-> c.usm, allocs |-> 1, copies |-> c.copies]

\* Shapes and strides (in elements) of the host arrays, with the number of
\* elements of the memory they lie in: a vector, a row-major matrix, its
\* transpose, and every second element of a vector.
Layouts ==
    {[shape |-> <<2>>, strides |-> <<1>>, elements |-> 2],
     [shape |-> <<2, 2>>, strides |-> <<2, 1>>, elements |-> 4],
     [shape |-> <<2, 2>>, strides |-> <<1, 2>>, elements |-> 4],
     [shape |-> <<2>>, strides |-> <<2>>, elements |-> 3]}

\* A host ndarray of dtype dt laid out as lay, its memory filled with a
\* byte pattern.
ndarray(dt, lay, seed) ==
    [kind |-> "ndarray", dtype |-> dt, shape |-> lay.shape,
     strides |-> [i \in 1..Len(lay.strides) |-> lay.strides[i] * itemsize(dt)],
     mem |-> [i \in 1..(lay.elements * itemsize(dt)) |-> (seed + i) % 256]]

\* Values an uninitialised byte of a new allocation may hold.
Garbage == {0, 255}

\* No call is in progress: the caller is between two calls.
NoCall ==
    [op |-> "none", obj |-> NoRef, usm_backed |-> NoRef, into |-> NoRef, queue |-> "None",
     usm_type |-> "none", copy |-> FALSE, status |-> "none", back |-> "none", ret |-> 0,
     allocs |-> 0, copies |-> 0, packed |-> FALSE, packed_obj |-> NoArray]

InitMem ==
    /\ \E dt \in DTypes, la \in Layouts, lb \in Layouts :
         host = <<ndarray(dt, la, 10), ndarray(dt, lb, 100)>>
    /\ host0 = host
    /\ usm = <<>>
    /\ last = NoCall

\* A caller allocates USM memory itself, dpctl_mem.MemoryUSMShared(nbytes)
\* and the like, sized for one of the host arrays.
call_MemoryUSM ==
    \E obj \in HostRefs, usm_type \in {"shared", "device", "host"}, g \in Garbage :
      /\ last = NoCall
      /\ Len(usm) < MaxBufs
      /\ usm' = Append(usm, MemoryUSM(usm_type, prod(host[obj[2]].shape) * itemsize(host[obj[2]].dtype),
                                      "queue", g))
      /\ last' = [NoCall EXCEPT !.op = "MemoryUSM", !.obj = obj, !.usm_type = usm_type,
                                !.queue = "queue", !.status = "ok", !.ret = Len(usm'),
                                !.allocs = 1]
      /\ UNCHANGED <<host, host0, ctxVars, typeVars>>

\* A caller allocates shared USM memory itself, dpctl_mem.MemoryUSMShared(nbytes),
\* sized for one of the host arrays.
call_MemoryUSMShared ==
    \E obj \in HostRefs, g \in Garbage :
      /\ last = NoCall
      /\ Len(usm) < MaxBufs
      /\ usm' = Append(usm, MemoryUSM("shared", prod(host[obj[2]].shape) * itemsize(host[obj[2]].dtype),
                                      "queue", g))
      /\ last' = [NoCall EXCEPT !.op = "MemoryUSM", !.obj = obj, !.usm_type = "shared",
                                !.queue = "queue", !.status = "ok", !.ret = Len(usm'),
                                !.allocs = 1]
      /\ UNCHANGED <<host, host0, ctxVars, typeVars>>

\* A caller calls as_usm_backed(obj, queue, usm_type, copy).
call_as_usm_backed ==
    \E obj \in Objects(usm), queue \in QueueArgs, usm_type \in UsmTypeArgs,
       copy \in BOOLEAN, g \in Garbage :
      LET r == as_usm_backed(usm, host, obj, queue, usm_type, copy, g)
      IN  /\ last = NoCall
          /\ Len(r.usm) <= MaxBufs
          /\ usm' = r.usm
          /\ last' = [NoCall EXCEPT !.op = "as_usm_backed", !.obj = obj, !.queue = queue,
                                    !.usm_type = usm_type, !.copy = copy,
                                    !.status = r.status, !.ret = r.ret,
                                    !.allocs = r.allocs, !.copies = r.copies]
          /\ UNCHANGED <<host, host0, ctxVars, typeVars>>

\* A caller calls copy_from_numpy_to_usm_obj(usm_backed, obj).
call_copy_from_numpy_to_usm_obj ==
    \E usm_backed \in Objects(usm), obj \in HostRefs \cup {ListRef} :
      LET r == copy_from_numpy_to_usm_obj(usm, host, usm_backed, obj)
      IN  /\ last = NoCall
          /\ usm' = r.usm
          /\ last' = [NoCall EXCEPT !.op = "copy_from_numpy_to_usm_obj", !.obj = obj,
                                    !.usm_backed = usm_backed, !.status = r.status,
                                    !.copies = r.copies, !.packed = r.packed,
                                    !.packed_obj = r.packed_obj]
          /\ UNCHANGED <<host, host0, ctxVars, typeVars>>

\* A caller calls copy_to_numpy_from_usm_obj(usm_backed, obj).
call_copy_to_numpy_from_usm_obj ==
    \E usm_backed \in Objects(usm), obj \in HostRefs \cup {ListRef} :
      LET r == copy_to_numpy_from_usm_obj(usm, host, usm_backed, obj)
      IN  /\ last = NoCall
          /\ host' = r.host
          /\ last' = [NoCall EXCEPT !.op = "copy_to_numpy_from_usm_obj", !.obj = obj,
                                    !.usm_backed = usm_backed, !.status = r.status,
                                    !.copies = r.copies]
          /\ UNCHANGED <<usm, host0, ctxVars, typeVars>>

\* A caller calls copy_from_numpy_to_usm_obj(usm_backed, obj) and, when that
\* returns, copy_to_numpy_from_usm_obj(usm_backed, into).
call_copy_there_and_back ==
    \E usm_backed \in Objects(usm), obj \in HostRefs, into \in HostRefs :
      LET r == copy_from_numpy_to_usm_obj(usm, host, usm_backed, obj)
          b == copy_to_numpy_from_usm_obj(r.usm, host, usm_backed, into)
      IN  /\ last = NoCall
          /\ usm' = r.usm
          /\ host' = IF r.status = "ok" THEN b.host ELSE host
          /\ last' = [NoCall EXCEPT !.op = "there_and_back", !.obj = obj, !.into = into,
                                    !.usm_backed = usm_backed, !.status = r.status,
                                    !.back = IF r.status = "ok" THEN b.status ELSE "none",
                                    !.copies = IF r.status = "ok" THEN r.copies + b.copies ELSE 0,
                                    !.packed = r.packed, !.packed_obj = r.packed_obj]
          /\ UNCHANGED <<host0, ctxVars, typeVars>>

\* The call has returned or raised; the caller goes on to its next call.
next_call ==
    /\ last # NoCall
    /\ last' = NoCall
    /\ UNCHANGED <<host, host0, usm, ctxVars, typeVars>>

(***************************************************************************)
(*                        dppy_array_type.py                               *)
(***************************************************************************)

\* Python values of the optional arguments: None, or a value.
PyNone == <<>>
Some(v) == <<v>>
is_None(x) == x = PyNone
value(x) == x[1]

\* The values of the fields of a type.
ElementTypes == {"int32", "float64"}
Dimensions == {1, 2}
ArrayLayouts == {"C", "A"}
\* The address spaces of the device, and no address space (None).
AddressSpaces == {Some("global"), Some("local")}
AddressSpaceArgs == AddressSpaces \cup {PyNone}

\* DPPYArray(dtype, ndim, layout, readonly=..., aligned=..., addrspace=...):
\* addrspace is stored, the other arguments go to numba's Array, which stores
\* dtype, ndim and layout, clears mutable when readonly and clears aligned
\* when not aligned.
DPPYArray(dtype, ndim, layout, readonly, aligned, addrspace) ==
    [dtype |-> dtype, ndim |-> ndim, layout |-> layout,
     mutable |-> ~readonly, aligned |-> aligned, addrspace |-> addrspace]

\* The key of numba's Array, which DPPYArray.key replaces.
Array_key(t) == <<t.dtype, t.ndim, t.layout, t.mutable, t.aligned>>

\* DPPYArray.key
key(t) == <<t.dtype, t.ndim, t.layout, t.mutable, t.aligned, t.addrspace>>

\* numba's Type.__eq__ on two DPPYArray types: their keys are equal.
type_eq(t1, t2) == key(t1) = key(t2)

\* The copy() of numba's Array, which DPPYArray.copy replaces: it knows no
\* address space.
Array_copy(self, dtype, ndim, layout, readonly, addrspace) ==
    DPPYArray(IF is_None(dtype) THEN self.dtype ELSE value(dtype),
              IF is_None(ndim) THEN self.ndim ELSE value(ndim),
              IF is_None(layout) THEN self.layout ELSE value(layout),
              IF is_None(readonly) THEN ~self.mutable ELSE value(readonly),
              self.aligned,
              PyNone)

\* DPPYArray.copy(dtype=None, ndim=None, layout=None, readonly=None,
\* addrspace=None), the arguments as Python values.
copy(self, dtype, ndim, layout, readonly, addrspace) ==
    DPPYArray(IF is_None(dtype) THEN self.dtype ELSE value(dtype),
              IF is_None(ndim) THEN self.ndim ELSE value(ndim),
              IF is_None(layout) THEN self.layout ELSE value(layout),
              IF is_None(readonly) THEN ~self.mutable ELSE value(readonly),
              self.aligned,
              IF is_None(addrspace) THEN self.addrspace ELSE addrspace)

\* The fields of the key, and the keyword arguments copy() takes.
KeyFields == {"dtype", "ndim", "layout", "mutable", "aligned", "addrspace"}
CopyKeywords == {"dtype", "ndim", "layout", "readonly", "addrspace"}

\* The keyword a caller uses to override a field: mutable is set through
\* readonly, every other field through the keyword of its name.
keyword(f) == IF f = "mutable" THEN "readonly" ELSE f

All == {DPPYArray(d, n, l, r, a, s) :
          d \in ElementTypes, n \in Dimensions, l \in ArrayLayouts,
          r \in BOOLEAN, a \in BOOLEAN, s \in AddressSpaceArgs}

NoType == [status |-> "none", type |-> <<>>]
NoRequest == [fields |-> {}, to |-> <<>>]

InitType ==
    /\ ty \in All
    /\ request = NoRequest
    /\ derived = NoType

\* A caller derives a type from ty, overriding the fields `fields` with the
\* values they have in `to`: ty.copy(**kwargs) with one keyword per overridden
\* field.  A keyword copy() does not take raises TypeError.
call_copy ==
    \E fields \in SUBSET KeyFields, to \in All :
      LET arg(f, v) == IF f \in fields THEN Some(v) ELSE PyNone
      IN  /\ derived = NoType
          /\ request' = [fields |-> fields,
                         to |-> [f \in fields |-> to[f]]]
          /\ derived' =
               IF \E f \in fields : keyword(f) \notin CopyKeywords
                 THEN [status |-> "TypeError", type |-> <<>>]
                 ELSE [status |-> "ok",
                       type |-> copy(ty, arg("dtype", to.dtype), arg("ndim", to.ndim),
                                     arg("layout", to.layout), arg("mutable", ~to.mutable),
                                     IF "addrspace" \in fields THEN to.addrspace ELSE PyNone)]
          /\ UNCHANGED <<ty, ctxVars, memVars>>

\* The caller is done with the type it got and makes its next call.
next_type ==
    /\ derived # NoType
    /\ request' = NoRequest
    /\ derived' = NoType
    /\ UNCHANGED <<ty, ctxVars, memVars>>

\* A caller constructs a second type.
call_DPPYArray ==
    \E d \in ElementTypes, n \in Dimensions, l \in ArrayLayouts,
       r \in BOOLEAN, a \in BOOLEAN, s \in AddressSpaceArgs :
      /\ derived = NoType
      /\ request' = NoRequest
      /\ derived' = [status |-> "ok", type |-> DPPYArray(d, n, l, r, a, s)]
      /\ UNCHANGED <<ty, ctxVars, memVars>>

\* The other two parts of the program at rest.
MemAtRest ==
    /\ host = <<>> /\ host0 = <<>> /\ usm = <<>> /\ last = <<>>
CtxAtRest == InitCtx
TypeAtRest ==
    /\ ty = <<>> /\ request = NoRequest /\ derived = NoType

Init == InitCtx /\ MemAtRest /\ TypeAtRest

\* Threads of the process entering and leaving nested_context scopes of
\* dppy_cpu_target and reading its contexts.
Next == \E t \in Threads : ScopeStep(t) \/ CpuReadStep(t) \/ resume(t)
Spec == Init /\ [][Next]_vars

\* Threads of the process reading the contexts of both descriptors,
\* dppy_cpu_target and dppy_target (no scope is entered).
NextTop == \E t \in Threads : CpuReadStep(t) \/ DevReadStep(t) \/ resume(t)
SpecTop == Init /\ [][NextTop]_vars

\* Calls of the functions of utils/array_utils.py, one after another.
InitMemSpec == CtxAtRest /\ InitMem /\ TypeAtRest
NextMem ==
    \/ call_MemoryUSM
    \/ call_as_usm_backed
    \/ call_copy_from_numpy_to_usm_obj
    \/ call_copy_to_numpy_from_usm_obj
    \/ call_copy_there_and_back
    \/ next_call
SpecMem == InitMemSpec /\ [][NextMem]_vars

\* The two transfers between host arrays and allocations the caller made.
NextCopy ==
    \/ call_MemoryUSMShared
    \/ call_copy_from_numpy_to_usm_obj
    \/ call_copy_to_numpy_from_usm_obj
    \/ next_call
SpecCopy == InitMemSpec /\ [][NextCopy]_vars

\* Construction and derivation of DPPYArray types.
InitTypeSpec == CtxAtRest /\ MemAtRest /\ InitType
NextType == call_copy \/ call_DPPYArray \/ next_type
SpecType == InitTypeSpec /\ [][NextType]_vars

(***************************************************************************)
(*                     Claims on descriptor.py                             *)
(***************************************************************************)

\* The pair thread t installed itself immediately before entering its
\* innermost scope: the pair of the enclosing scope, or no override.
Enclosing(t) ==
    IF Len(frames[t]) > 1 THEN frames[t][Len(frames[t]) - 1].arg ELSE <<None, None>>

\* The override pair in force for thread t: that of its innermost scope.
OwnOverride(t) ==
    IF Len(frames[t]) > 0 THEN Top(t).arg ELSE <<None, None>>

\* Thread t completes leaving its innermost scope in this step.
LeavesScope(t) == pc[t] = "exit_set_tg" /\ pc'[t] = "idle"

\* C1: whenever a thread leaves a nested_context scope, normally or with an
\* exception, the selector holds exactly the (typing_context, target_context)
\* pair that was installed immediately before the thread entered that scope;
\* after its outermost scope that is the Default state, no override.
C1_LeavingRestoresPriorPair ==
    [][\A t \in Threads :
         LeavesScope(t) =>
           <<nested_typing_context', nested_target_context'>> = Enclosing(t)]_vars

\* What a read of a dppy_cpu_target property by thread t must return when the
\* override is the thread's own: the member of its innermost scope's pair, or
\* a top-level context when the thread is in no scope.
PerThreadValues(t, prop) ==
    IF Len(frames[t]) > 0
      THEN {IF prop = "cpu.typing_context" THEN Top(t).arg[1] ELSE Top(t).arg[2]}
      ELSE {IF prop = "cpu.typing_context"
              THEN TypingContext("cpu", k) ELSE TargetContext("cpu", k) : k \in 1..2}

ReadsOwnOverride(t) ==
    (pc[t] = "returned" /\ ret[t][1] \in {"cpu.typing_context", "cpu.target_context"})
        => ret[t][2] \in PerThreadValues(t, ret[t][1])

\* C2: the override is per-thread: a thread that is in no scope never reads
\* another thread's override from typing_context / target_context, a thread
\* inside a scope reads the pair of its own innermost scope whatever the other
\* thread enters or leaves, and it gets its own prior pair back on exit.
C2_OverrideIsPerThread ==
    [][\A t \in Threads :
         /\ ReadsOwnOverride(t)'
         /\ LeavesScope(t) =>
              (nested_typing_context' = Enclosing(t)[1] /\ nested_target_context' = Enclosing(t)[2])]_vars

\* C3: each top-level typing context and target context, of dppy_cpu_target
\* and of dppy_target, is constructed at most once per process, and every
\* such construction runs while the global compiler lock is held by the
\* constructing thread.
C3_DefaultBuiltOnceUnderLock ==
    /\ \A d \in Targets : built_typing[d] <= 1 /\ built_target[d] <= 1
    /\ \A t \in Threads :
         pc[t] \in BuildTypingPcs \cup BuildTargetPcs => global_compiler_lock = t

(***************************************************************************)
(*                  Claims on utils/array_utils.py                         *)
(***************************************************************************)

\* The dtypes the Transfer Engine is specified to accept: 32/64-bit signed
\* and unsigned integers, 32/64-bit floating point.
SpecifiedDTypes == {"int32", "int64", "uint32", "uint64", "float32", "float64"}

\* The host array a call was given, and its size in bytes.
HostArg(ref) == host[ref[2]]
nbytes(a) == prod(a.shape) * itemsize(a.dtype)

\* C4: as_usm_backed on an object that has_usm_memory already finds USM
\* backed returns that allocation, allocates nothing and copies nothing,
\* whatever the queue, usm_type and copy arguments are.
C4_BackedObjectReturnedAsIs ==
    (last.op = "as_usm_backed" /\ has_usm_memory(last.obj) # 0)
        => /\ last.status = "ok"
           /\ last.ret = has_usm_memory(last.obj)
           /\ last.allocs = 0
           /\ last.copies = 0

\* The reasons the specification gives as_usm_backed to refuse a host value
\* that has no USM backing.
RefusalsOfMaterialize(c) ==
    (IF c.queue = "None" THEN {"QueueRequired"} ELSE {})
    \cup (IF c.queue # "None" /\ ~is_SyclQueue(c.queue) THEN {"InvalidQueueType"} ELSE {})
    \cup (IF ~is_ndarray(c.obj) THEN {"NotHostArray"} ELSE {})
    \cup (IF is_ndarray(c.obj) /\ HostArg(c.obj).dtype \notin SpecifiedDTypes
            THEN {"UnsupportedDType"} ELSE {})
    \cup (IF c.usm_type \notin {"shared", "device", "host"} THEN {"InvalidMemoryKind"} ELSE {})

\* C5: as_usm_backed on a host value without USM backing fails, allocating
\* and copying nothing, when the queue is None (QueueRequired), is no queue
\* (InvalidQueueType), the value is no host array or has an unsupported dtype,
\* or usm_type is not shared/device/host (InvalidMemoryKind); in every other
\* case it makes exactly one allocation of element_count * itemsize bytes on
\* the given queue and copies into it if and only if copy is set.
C5_MaterializeFailsOrAllocatesOnce ==
    (last.op = "as_usm_backed" /\ has_usm_memory(last.obj) = 0)
        => IF RefusalsOfMaterialize(last) # {}
             THEN /\ last.status \in RefusalsOfMaterialize(last)
                  /\ last.allocs = 0
                  /\ last.copies = 0
             ELSE /\ last.status = "ok"
                  /\ last.allocs = 1
                  /\ last.ret = Len(usm)
                  /\ usm[last.ret].size = nbytes(HostArg(last.obj))
                  /\ usm[last.ret].queue = last.queue
                  /\ last.copies = (IF last.copy THEN 1 ELSE 0)
                  /\ last.copy => usm[last.ret].bytes = flatten(HostArg(last.obj)).mem

\* C6: copy_from_numpy_to_usm_obj checks its preconditions before it
\* transfers anything: a buffer argument that is not USM backed fails with
\* NotDeviceBacked; else a host array of an unsupported dtype fails with
\* UnsupportedDType; else a buffer whose byte size differs from
\* element_count * itemsize of the host array fails with SizeMismatch; and a
\* failing call leaves every allocation's contents as they were.
C6_HostToDeviceChecksFirst ==
    [][(last'.op = "copy_from_numpy_to_usm_obj" /\ is_ndarray(last'.obj))
         => LET a == host[last'.obj[2]]
                usm_mem == has_usm_memory(last'.usm_backed)
            IN  /\ usm_mem = 0 => last'.status = "NotDeviceBacked"
                /\ (usm_mem # 0 /\ a.dtype \notin SpecifiedDTypes)
                      => last'.status = "UnsupportedDType"
                /\ (usm_mem # 0 /\ a.dtype \in SpecifiedDTypes /\ usm[usm_mem].size # nbytes(a))
                      => last'.status = "SizeMismatch"
                /\ last'.status # "ok" => (usm' = usm /\ last'.copies = 0)]_vars

\* A call that reached the dtype check of its host array.
ReachedDTypeCheck(c) ==
    /\ is_ndarray(c.obj)
    /\ \/ c.op \in {"copy_from_numpy_to_usm_obj", "copy_to_numpy_from_usm_obj", "there_and_back"}
          /\ has_usm_memory(c.usm_backed) # 0
       \/ c.op = "as_usm_backed"
          /\ has_usm_memory(c.obj) = 0
          /\ check_queue(c.queue) = "ok"

\* C7: host_to_device, device_to_host and materialize reject a host array for
\* its dtype exactly when the dtype is none of int32, int64, uint32, uint64,
\* float32, float64.
C7_SixDTypesAccepted ==
    ReachedDTypeCheck(last)
        => ((last.status = "UnsupportedDType") <=> (HostArg(last.obj).dtype \notin SpecifiedDTypes))

\* C10: for a row-major contiguous host array a of a supported dtype and an
\* allocation of exactly a's byte size, copy_from_numpy_to_usm_obj(buffer, a)
\* followed by copy_to_numpy_from_usm_obj(buffer, b), b contiguous, of a's
\* dtype and size, leaves b holding a's bytes and a as it was.
C10_RoundTrip ==
    [][(/\ last'.op = "there_and_back"
        /\ last'.into # last'.obj
        /\ has_usm_memory(last'.usm_backed) # 0
        /\ LET a == host[last'.obj[2]]
               b == host[last'.into[2]]
           IN  /\ a.dtype \in SpecifiedDTypes
               /\ c_contiguous(a) /\ c_contiguous(b)
               /\ b.dtype = a.dtype
               /\ nbytes(b) = nbytes(a)
               /\ usm[has_usm_memory(last'.usm_backed)].size = nbytes(a))
         => /\ last'.status = "ok" /\ last'.back = "ok"
            /\ host'[last'.into[2]].mem = host[last'.obj[2]].mem
            /\ host'[last'.obj[2]] = host[last'.obj[2]]]_vars

(***************************************************************************)
(*                  Claims on dppy_array_type.py                           *)
(***************************************************************************)

\* Two types agree on dtype, ndim, layout, mutable and aligned.
AgreeButAddrspace(t1, t2) ==
    /\ t1.dtype = t2.dtype /\ t1.ndim = t2.ndim /\ t1.layout = t2.layout
    /\ t1.mutable = t2.mutable /\ t1.aligned = t2.aligned

\* C8: two DPPYArray types with identical dtype, ndim, layout, mutable and
\* aligned whose address-space tags differ (one of them may be None) have
\* different keys and compare unequal; two types that agree on all six
\* fields compare equal.
C8_AddrspaceDistinguishesTypes ==
    (derived.status = "ok" /\ AgreeButAddrspace(ty, derived.type))
        => IF ty.addrspace # derived.type.addrspace
             THEN key(ty) # key(derived.type) /\ ~type_eq(ty, derived.type)
             ELSE type_eq(ty, derived.type)

\* Two types that differ in nothing but the address-space tag, one of them
\* having none, were constructed.
C8_Witness ==
    /\ derived.status = "ok" /\ request = NoRequest
    /\ AgreeButAddrspace(ty, derived.type)
    /\ ty.addrspace = PyNone /\ derived.type.addrspace # PyNone

RECURSIVE Indices(_)
Indices(shape) ==
    IF shape = <<>> THEN {<<>>}
    ELSE {<<i>> \o rest : i \in 0..(Head(shape) - 1), rest \in Indices(Tail(shape))}

\* The place of the element at idx when the elements are counted in
\* row-major order, from 0.
RECURSIVE RowMajorRank(_, _)
RowMajorRank(shape, idx) ==
    IF shape = <<>> THEN 0
    ELSE Head(idx) * prod(Tail(shape)) + RowMajorRank(Tail(shape), Tail(idx))

\* The byte offset of the element at idx in the memory of an array.
RECURSIVE ByteOffset(_, _)
ByteOffset(strides, idx) ==
    IF strides = <<>> THEN 0
    ELSE Head(idx) * Head(strides) + ByteOffset(Tail(strides), Tail(idx))

\* The bytes of the element at idx of array a.
ElementAt(a, idx) ==
    SubSeq(a.mem, ByteOffset(a.strides, idx) + 1, ByteOffset(a.strides, idx) + itemsize(a.dtype))

\* An array is laid out row-major contiguous: each element lies right after
\* the one before it in row-major order.
RowMajorContiguous(a) ==
    \A idx \in Indices(a.shape) :
        ByteOffset(a.strides, idx) = RowMajorRank(a.shape, idx) * itemsize(a.dtype)

\* A step in which copy_from_numpy_to_usm_obj returns.
HostToDeviceReturns ==
    /\ last'.op = "copy_from_numpy_to_usm_obj"
    /\ last'.status = "ok"

\* C11: when copy_from_numpy_to_usm_obj returns, the flag it returns is true
\* exactly when the host array is not row-major contiguous; when true, the
\* packed array is a one-dimensional row-major contiguous array of the same
\* dtype holding the host array's elements in row-major order, and its bytes
\* are what the buffer holds afterwards; when false, the packed array is the
\* host array; in both cases the host array is left as it was.
C11_RepackedWhenNotContiguous ==
    [][HostToDeviceReturns =>
        LET a == host[last'.obj[2]]
            p == last'.packed_obj
            buf == has_usm_memory(last'.usm_backed)
        IN  /\ last'.packed = ~RowMajorContiguous(a)
            /\ host' = host
            /\ usm'[buf].bytes = p.mem
            /\ IF last'.packed
                 THEN /\ RowMajorContiguous(p)
                      /\ p.dtype = a.dtype
                      /\ Len(p.mem) = prod(a.shape) * itemsize(a.dtype)
                      /\ \A idx \in Indices(a.shape) :
                           ElementAt(p, <<RowMajorRank(a.shape, idx)>>) = ElementAt(a, idx)
                 ELSE p = a]_vars

\* copy_from_numpy_to_usm_obj has returned after packing a transposed matrix.
C11_Witness ==
    /\ last.op = "copy_from_numpy_to_usm_obj"
    /\ last.status = "ok"
    /\ last.packed
    /\ Len(host[last.obj[2]].shape) = 2
    /\ usm[has_usm_memory(last.usm_backed)].bytes = last.packed_obj.mem

\* A step in which copy_to_numpy_from_usm_obj is called on a host array.
DeviceToHostCalled ==
    /\ last'.op = "copy_to_numpy_from_usm_obj"
    /\ is_ndarray(last'.obj)

\* C12: copy_to_numpy_from_usm_obj returns only when the destination host
\* array is row-major contiguous and has as many bytes as the buffer, and then
\* the destination keeps its dtype, shape, strides and size and holds the
\* buffer's bytes; with a device-backed buffer, a destination that is not
\* contiguous or a size that differs makes it raise; whenever it raises, the
\* host arrays are unchanged.
C12_DeviceToHostNeverRepacks ==
    [][DeviceToHostCalled =>
        LET k == last'.obj[2]
            b == host[k]
            buf == has_usm_memory(last'.usm_backed)
        IN  /\ last'.status = "ok" =>
                 /\ buf # 0
                 /\ RowMajorContiguous(b)
                 /\ usm[buf].size = prod(b.shape) * itemsize(b.dtype)
                 /\ host'[k].dtype = b.dtype
                 /\ host'[k].shape = b.shape
                 /\ host'[k].strides = b.strides
                 /\ Len(host'[k].mem) = Len(b.mem)
                 /\ host'[k].mem = usm[buf].bytes
                 /\ \A j \in 1..Len(host) : j # k => host'[j] = host[j]
            /\ (buf # 0 /\ ~RowMajorContiguous(b)) => last'.status # "ok"
            /\ (buf # 0 /\ usm[buf].size # prod(b.shape) * itemsize(b.dtype))
                 => last'.status # "ok"
            /\ last'.status # "ok" => host' = host
            /\ usm' = usm]_vars

\* copy_to_numpy_from_usm_obj was called with a buffer of the destination's
\* byte size and a destination that is not contiguous, and raised.
C12_Witness ==
    /\ last.op = "copy_to_numpy_from_usm_obj"
    /\ is_ndarray(last.obj)
    /\ has_usm_memory(last.usm_backed) # 0
    /\ ~RowMajorContiguous(host[last.obj[2]])
    /\ usm[has_usm_memory(last.usm_backed)].size
         = prod(host[last.obj[2]].shape) * itemsize(host[last.obj[2]].dtype)
    /\ dtype_is_supported(host[last.obj[2]].dtype)
    /\ last.status = "NotContiguous"
    /\ host = host0

(***************************************************************************)
(*                Claims on descriptor.py, continued                       *)
(***************************************************************************)

\* Positions at which a thread that called dppy_cpu_target.typing_context or
\* .target_context is about to look up the override.
ReadPoints == {"cty_read_nested", "ctg_read_nested"}

\* The Default pair: the top-level contexts of dppy_cpu_target.
IsDefaultMember(prop, v) ==
    IF prop = "cpu.typing_context"
      THEN v = TypingContext("cpu", 1)
      ELSE v = TargetContext("cpu", 1)

\* C13: at every point of every execution, the (typing_context,
\* target_context) pair a thread reads from dppy_cpu_target is coherent: when
\* the thread looks up the override, the pair in the selector is the pair
\* passed to the thread's innermost open scope, or no override at all when
\* the thread is in no scope, never one member of an override beside a missing
\* one; and each member the thread gets back is the member of that scope's
\* pair, or of the Default pair when the thread is in no scope.
C13_ReadPairIsCoherent ==
    \A t \in Threads :
      /\ pc[t] \in ReadPoints =>
           <<nested_typing_context, nested_target_context>> = OwnOverride(t)
      /\ (pc[t] = "returned" /\ ret[t][1] \in {"cpu.typing_context", "cpu.target_context"}) =>
           IF Len(frames[t]) > 0
             THEN ret[t][2] = (IF ret[t][1] = "cpu.typing_context"
                                 THEN Top(t).arg[1] ELSE Top(t).arg[2])
             ELSE IsDefaultMember(ret[t][1], ret[t][2])

====
